---------------------------- MODULE Spec2Model ----------------------------
(***************************************************************************)
(* A model of medscribe's extraction pipeline                              *)
(* (backend/extraction_service.py) and of the HTTP controller in front of  *)
(* it (backend/api.py).                                                    *)
(*                                                                         *)
(* Python strings are modelled as sequences of one-character strings, so   *)
(* that strip, replace, splitlines, the regular expressions and the        *)
(* substring tests are computed character by character as the code         *)
(* computes them.                                                          *)
(*                                                                         *)
(* Three specifications:                                                   *)
(*   Spec        one request through the controller / process_transcript,  *)
(*               with the providers' outcomes chosen nondeterministically  *)
(*   SpecClean   clean_transcript applied once and twice to every string   *)
(*               over a small alphabet                                     *)
(*   SpecParse   structure_output and validate_extraction applied to every *)
(*               provider reply assembled from a small set of lines        *)
(***************************************************************************)
EXTENDS Integers, Sequences, FiniteSets, TLC

VARIABLES
    \* ---- Spec: the service object, one request, its progress ----
    openai_client,   \* ExtractionService.openai_client is set (a key was found)
    claude_client,   \* ExtractionService.claude_client is set
    entry,           \* "http": through TranscriptController; "direct": a library call
    transcript,      \* the request's transcript, a Python value
    options,         \* the request's options, a Python value
    pc,              \* where the request is
    cleaned,         \* process_transcript's local `cleaned`: <<>> until set, then <<text>>
    extracted_text,  \* process_transcript's local `extracted_text`, likewise
    pending,         \* the exception caught from provider A while B is awaited
    calls,           \* the provider calls made, in order
    raised,          \* the exception that left process_transcript's try block
    result,          \* what process_transcript returned
    response,        \* the controller's JSONResponse
    \* ---- SpecClean ----
    cpc, cx, cy, cz,
    \* ---- SpecParse ----
    ppc, raw_output, structured, validation

vars == <<openai_client, claude_client, entry, transcript, options, pc, cleaned,
          extracted_text, pending, calls, raised, result, response,
          cpc, cx, cy, cz, ppc, raw_output, structured, validation>>

pipelineVars == <<openai_client, claude_client, entry, transcript, options, pc,
                  cleaned, extracted_text, pending, calls, raised, result, response>>
cleanVars == <<cpc, cx, cy, cz>>
parseVars == <<ppc, raw_output, structured, validation>>

-----------------------------------------------------------------------------
(* Bounds of the model. *)

\* longest input string of SpecClean
MaxLen == 6
\* the cap of clean_transcript's [:50000], scaled down so that inputs exceed it
TranscriptCap == 4
\* most lines in a provider reply of SpecParse
MaxLines == 4

-----------------------------------------------------------------------------
(* Python's str operations, on sequences of characters. *)

Min(a, b) == IF a <= b THEN a ELSE b

\* the ASCII characters for which str.isspace() is true, among those modelled
Whitespace == {" ", "\n", "\r", "\t", "\f"}

\* all sequences over S of length at most n
RECURSIVE SeqsUpTo(_, _)
SeqsUpTo(S, n) ==
    IF n = 0 THEN {<<>>}
    ELSE LET shorter == SeqsUpTo(S, n - 1)
         IN  shorter \cup {Append(s, c) : s \in {t \in shorter : Len(t) = n - 1}, c \in S}

\* s[i:] (1-based i)
Drop(s, i) == SubSeq(s, i, Len(s))

\* str.lstrip(): drop the leading characters that are in chars
RECURSIVE LStripChars(_, _)
LStripChars(s, chars) ==
    IF s # <<>> /\ s[1] \in chars THEN LStripChars(Tail(s), chars) ELSE s

\* str.rstrip(chars)
RECURSIVE RStripChars(_, _)
RStripChars(s, chars) ==
    IF s # <<>> /\ s[Len(s)] \in chars
    THEN RStripChars(SubSeq(s, 1, Len(s) - 1), chars) ELSE s

\* str.strip()
Strip(s) == RStripChars(LStripChars(s, Whitespace), Whitespace)

\* str.replace(old, new) for a one-character old
ReplaceChar(s, old, new) == [i \in 1..Len(s) |-> IF s[i] = old THEN new ELSE s[i]]

\* m occurs in s at position i
OccursAt(s, m, i) ==
    /\ i >= 1
    /\ i + Len(m) - 1 <= Len(s)
    /\ \A k \in 1..Len(m) : s[i + k - 1] = m[k]

\* str.startswith
StartsWith(s, m) == OccursAt(s, m, 1)

\* `m in s`
Contains(s, m) == \E i \in 1..(Len(s) + 1) : OccursAt(s, m, i)

\* str.replace(old, new): the occurrences of old are found left to right and do
\* not overlap; what a replacement produces is not scanned again
RECURSIVE Replace(_, _, _)
Replace(s, old, new) ==
    IF s = <<>> THEN <<>>
    ELSE IF OccursAt(s, old, 1) THEN new \o Replace(Drop(s, Len(old) + 1), old, new)
    ELSE <<s[1]>> \o Replace(Tail(s), old, new)

-----------------------------------------------------------------------------
(* ExtractionService.clean_transcript *)

\* clean_transcript with the double-space collapse moved before the
\* newline/tab replacements
clean_transcript_collapse_first(t) ==
    LET stripped == Strip(t)
        collapsed == Replace(stripped, <<" ", " ">>, <<" ">>)
        noNl     == ReplaceChar(collapsed, "\n", " ")
        noCr     == ReplaceChar(noNl, "\r", " ")
        noTab    == ReplaceChar(noCr, "\t", " ")
    IN  SubSeq(noTab, 1, Min(Len(noTab), TranscriptCap))

clean_transcript(t) ==
    LET stripped == Strip(t)
        noNl     == ReplaceChar(stripped, "\n", " ")
        noCr     == ReplaceChar(noNl, "\r", " ")
        noTab    == ReplaceChar(noCr, "\t", " ")
        collapsed == Replace(noTab, <<" ", " ">>, <<" ">>)
    IN  SubSeq(collapsed, 1, Min(Len(collapsed), TranscriptCap))

-----------------------------------------------------------------------------
(* ExtractionService.structure_output, parse_section, validate_extraction *)

OpenMarker ==
    <<"=","=","="," ","C","L","I","N","I","C","A","L"," ","D","A","T","A"," ","E","X","T","R","A","C","T","I","O","N"," ","=","=","=">>
CloseMarker ==
    <<"=","=","="," ","E","N","D"," ","O","F"," ","E","X","T","R","A","C","T","I","O","N"," ","=","=","=">>

Digits == {"0", "1", "2", "3", "4", "5", "6", "7", "8", "9"}

\* the line boundaries of str.splitlines(), among the characters modelled
\* ("\r\n" is one boundary to splitlines and two here: the empty line between
\* them is one parse_section drops)
LineBreaks == {"\n", "\r", "\f"}

UpperCase == <<"A","B","C","D","E","F","G","H","I","J","K","L","M","N","O","P","Q","R","S","T","U","V","W","X","Y","Z">>
LowerCase == <<"a","b","c","d","e","f","g","h","i","j","k","l","m","n","o","p","q","r","s","t","u","v","w","x","y","z">>

\* str.lower(), one character
LowerChar(c) ==
    IF \E i \in 1..Len(UpperCase) : UpperCase[i] = c
    THEN LowerCase[CHOOSE i \in 1..Len(UpperCase) : UpperCase[i] = c]
    ELSE c

\* str.lower()
Lower(s) == [i \in 1..Len(s) |-> LowerChar(s[i])]

\* the first position >= from at which m occurs in s, 0 when there is none
Find(s, m, from) ==
    LET at == {i \in from..(Len(s) - Len(m) + 1) : OccursAt(s, m, i)}
    IN  IF at = {} THEN 0 ELSE CHOOSE i \in at : \A j \in at : i <= j

\* str.splitlines(): the text between line boundaries; no empty last line
SplitLines(s) ==
    LET breaks == {i \in 1..Len(s) : s[i] \in LineBreaks}
        \* a line starts at 1 and after every boundary that is not the last character
        starts == {1} \cup {i + 1 : i \in {b \in breaks : b < Len(s)}}
        endOf(a) == IF \E b \in breaks : b >= a
                    THEN (CHOOSE b \in breaks : b >= a /\ \A c \in breaks : c >= a => b <= c) - 1
                    ELSE Len(s)
        nth(k) == CHOOSE a \in starts : Cardinality({b \in starts : b < a}) = k - 1
    IN  IF s = <<>> THEN <<>>
        ELSE [k \in 1..Cardinality(starts) |-> SubSeq(s, nth(k), endOf(nth(k)))]

\* [l.strip() for l in section.splitlines() if l.strip()]
StrippedLines(section) ==
    LET all == SplitLines(section)
        stripped == [i \in 1..Len(all) |-> Strip(all[i])]
    IN  SelectSeq(stripped, LAMBDA l : l # <<>>)

\* re.match(r"^\d+\.", line)
IsHeader(line) ==
    LET rest == LStripChars(line, Digits)
    IN  Len(rest) < Len(line) /\ rest # <<>> /\ rest[1] = "."

\* re.sub(r"^\d+\.\s*", "", line).rstrip(":"), for a line that IsHeader
CategoryName(line) ==
    LET rest == LStripChars(line, Digits)
    IN  RStripChars(LStripChars(Tail(rest), Whitespace), {":"})

\* line.startswith("-")
IsDash(line) == StartsWith(line, <<"-">>)

\* line[1:].strip()
DetailText(line) == Strip(Tail(line))

\* ParseLine flushing the open item at the next header only if it has details
ParseLine_drop_empty(st, line) ==
    IF IsHeader(line)
    THEN [data_points  |-> IF st.current_item # <<>> /\ st.current_item[1].details # <<>>
                           THEN st.data_points \o st.current_item
                           ELSE st.data_points,
          current_item |-> <<[category |-> CategoryName(line), details |-> <<>>]>>]
    ELSE IF IsDash(line) /\ st.current_item # <<>>
    THEN [st EXCEPT !.current_item[1].details = Append(@, DetailText(line))]
    ELSE st

\* one turn of parse_section's loop; st.current_item is <<>> for None, or
\* <<item>>
ParseLine(st, line) ==
    IF IsHeader(line)
    THEN [data_points  |-> st.data_points \o st.current_item,
          current_item |-> <<[category |-> CategoryName(line), details |-> <<>>]>>]
    ELSE IF IsDash(line) /\ st.current_item # <<>>
    THEN [st EXCEPT !.current_item[1].details = Append(@, DetailText(line))]
    ELSE st

RECURSIVE ParseLines(_, _)
ParseLines(st, lines) ==
    IF lines = <<>> THEN st ELSE ParseLines(ParseLine(st, lines[1]), Tail(lines))

parse_section(section) ==
    LET final == ParseLines([data_points |-> <<>>, current_item |-> <<>>],
                            StrippedLines(section))
    IN  final.data_points \o final.current_item

\* re.search(r"=== CLINICAL DATA EXTRACTION ===([\s\S]*?)=== END OF EXTRACTION ===",
\* raw_output): the leftmost opening marker, then the nearest closing marker
\* after it; group(1) is what lies between
SearchSection(raw) ==
    LET open  == Find(raw, OpenMarker, 1)
        close == IF open = 0 THEN 0 ELSE Find(raw, CloseMarker, open + Len(OpenMarker))
    IN  IF close = 0 THEN [matched |-> FALSE, group |-> <<>>]
        ELSE [matched |-> TRUE,
              group |-> SubSeq(raw, open + Len(OpenMarker), close - 1)]

structure_output(raw) ==
    LET match == SearchSection(raw)
        categories == IF match.matched THEN parse_section(match.group) ELSE <<>>
    IN  [categories |-> categories,
         summary |-> [totalDataPoints |-> Len(categories),
                      categoriesFound |-> [i \in 1..Len(categories) |-> categories[i].category],
                      confidenceScore |-> "None"]]

Required == <<
    <<"C","h","i","e","f"," ","C","o","m","p","l","a","i","n","t">>,
    <<"H","i","s","t","o","r","y"," ","o","f"," ","P","r","e","s","e","n","t"," ","I","l","l","n","e","s","s">> >>

MissingPrefix == <<"M","i","s","s","i","n","g"," ","e","x","p","e","c","t","e","d"," ","c","a","t","e","g","o","r","y",":"," ">>
NoDataPoints == <<"N","o"," ","c","l","i","n","i","c","a","l"," ","d","a","t","a"," ","p","o","i","n","t","s"," ","e","x","t","r","a","c","t","e","d">>

\* validate_extraction treating a missing required category as invalidating
validate_extraction_strict(st) ==
    LET found == [i \in 1..Len(st.categories) |-> st.categories[i].category]
        isMissing(req) == ~ \E i \in 1..Len(found) : Contains(Lower(found[i]), Lower(req))
        missing == SelectSeq(Required, isMissing)
        warnings == [i \in 1..Len(missing) |-> MissingPrefix \o missing[i]]
    IN  IF st.summary.totalDataPoints = 0 \/ missing # <<>>
        THEN [isValid |-> FALSE, warnings |-> warnings, errors |-> <<NoDataPoints>>]
        ELSE [isValid |-> TRUE, warnings |-> warnings, errors |-> <<>>]

validate_extraction(st) ==
    LET found == [i \in 1..Len(st.categories) |-> st.categories[i].category]
        isMissing(req) == ~ \E i \in 1..Len(found) : Contains(Lower(found[i]), Lower(req))
        missing == SelectSeq(Required, isMissing)
        warnings == [i \in 1..Len(missing) |-> MissingPrefix \o missing[i]]
    IN  IF st.summary.totalDataPoints = 0
        THEN [isValid |-> FALSE, warnings |-> warnings, errors |-> <<NoDataPoints>>]
        ELSE [isValid |-> TRUE, warnings |-> warnings, errors |-> <<>>]

\* the text generate_mock_response returns, line by line
generate_mock_response ==
    <<"=","=","="," ","C","L","I","N","I","C","A","L"," ","D","A","T","A"," ","E","X","T","R","A","C","T","I","O","N"," ","=","=","=","\n">>
    \o <<"\n">>
    \o <<"1","."," ","C","h","i","e","f"," ","C","o","m","p","l","a","i","n","t","/","R","e","a","s","o","n"," ","f","o","r"," ","V","i","s","i","t",":","\n">>
    \o <<" "," "," ","-"," ","P","a","t","i","e","n","t"," ","p","r","e","s","e","n","t","s"," ","w","i","t","h"," ","c","h","e","s","t"," ","p","a","i","n"," ","f","o","r"," ","2"," ","d","a","y","s","\n">>
    \o <<" "," "," ","-"," ","D","e","s","c","r","i","b","e","s"," ","p","a","i","n"," ","a","s"," ","\"","s","h","a","r","p"," ","a","n","d"," ","s","t","a","b","b","i","n","g","\"","\n">>
    \o <<"\n">>
    \o <<"2","."," ","H","i","s","t","o","r","y"," ","o","f"," ","P","r","e","s","e","n","t"," ","I","l","l","n","e","s","s"," ","(","H","P","I",")",":","\n">>
    \o <<" "," "," ","-"," ","O","n","s","e","t",":"," ","2"," ","d","a","y","s"," ","a","g","o",","," ","s","u","d","d","e","n"," ","o","n","s","e","t","\n">>
    \o <<" "," "," ","-"," ","C","h","a","r","a","c","t","e","r",":"," ","S","h","a","r","p",","," ","s","t","a","b","b","i","n","g"," ","p","a","i","n","\n">>
    \o <<" "," "," ","-"," ","L","o","c","a","t","i","o","n",":"," ","L","e","f","t"," ","s","i","d","e"," ","o","f"," ","c","h","e","s","t","\n">>
    \o <<" "," "," ","-"," ","S","e","v","e","r","i","t","y",":"," ","7","/","1","0"," ","o","n"," ","p","a","i","n"," ","s","c","a","l","e","\n">>
    \o <<" "," "," ","-"," ","A","g","g","r","a","v","a","t","i","n","g"," ","f","a","c","t","o","r","s",":"," ","D","e","e","p"," ","b","r","e","a","t","h","i","n","g",","," ","m","o","v","e","m","e","n","t","\n">>
    \o <<" "," "," ","-"," ","A","s","s","o","c","i","a","t","e","d"," ","s","y","m","p","t","o","m","s",":"," ","S","h","o","r","t","n","e","s","s"," ","o","f"," ","b","r","e","a","t","h","\n">>
    \o <<"\n">>
    \o <<"3","."," ","C","u","r","r","e","n","t"," ","M","e","d","i","c","a","t","i","o","n","s",":","\n">>
    \o <<" "," "," ","-"," ","L","i","s","i","n","o","p","r","i","l"," ","1","0","m","g"," ","d","a","i","l","y"," ","f","o","r"," ","h","y","p","e","r","t","e","n","s","i","o","n","\n">>
    \o <<" "," "," ","-"," ","M","e","t","f","o","r","m","i","n"," ","5","0","0","m","g"," ","t","w","i","c","e"," ","d","a","i","l","y"," ","f","o","r"," ","d","i","a","b","e","t","e","s","\n">>
    \o <<"\n">>
    \o <<"4","."," ","P","a","s","t"," ","M","e","d","i","c","a","l"," ","H","i","s","t","o","r","y",":","\n">>
    \o <<" "," "," ","-"," ","H","y","p","e","r","t","e","n","s","i","o","n"," ","d","i","a","g","n","o","s","e","d"," ","5"," ","y","e","a","r","s"," ","a","g","o","\n">>
    \o <<" "," "," ","-"," ","T","y","p","e"," ","2"," ","d","i","a","b","e","t","e","s"," ","d","i","a","g","n","o","s","e","d"," ","3"," ","y","e","a","r","s"," ","a","g","o","\n">>
    \o <<"\n">>
    \o <<"=","=","="," ","E","N","D"," ","O","F"," ","E","X","T","R","A","C","T","I","O","N"," ","=","=","=","\n">>

-----------------------------------------------------------------------------
(* Python values of a request, exceptions, and the provider outcomes. *)

\* a str, an int, None; value holds the characters (of an int, its digits)
PyStr(chars) == [type |-> "str", value |-> chars]
PyInt(digits) == [type |-> "int", value |-> digits]
None == [type |-> "NoneType", value |-> <<>>]

\* nothing returned yet, nothing sent yet
NoResult == [none |-> TRUE]
NoResponse == [status |-> 0, content |-> NoResult]

\* `not transcript` is false: a value Python treats as true
Truthy(v) ==
    CASE v.type = "NoneType" -> FALSE
      [] v.type = "str"      -> v.value # <<>>
      [] v.type = "int"      -> v.value # <<"0">>

\* options as Python sees it in `options or {}`
OptionsTruthy(o) ==
    CASE o.type = "NoneType" -> FALSE
      [] o.type = "dict"     -> o.mockResponse # "absent" \/ o.method # "absent"
      [] o.type = "list"     -> o.items > 0

EmptyDict == [type |-> "dict", mockResponse |-> "absent", method |-> "absent", items |-> 0]

\* an exception object; origin names the call that raised it
Exc(type, args, origin) == [type |-> type, args |-> args, origin |-> origin]

NoException == Exc("none", <<>>, "none")

\* str(e) of an exception with at most one argument
StrOf(e) == IF e.args = <<>> THEN "" ELSE e.args[1]

InvalidTranscriptMessage == "Invalid transcript provided"
NoKeysMessage == "No API keys configured. Set OPENAI_API_KEY or CLAUDE_API_KEY."
MissingTranscriptMessage == "Missing transcript text."

\* a handler written `except ValueError`
Catches_value_error_only(e) == e.type = "ValueError"

\* the classes `except Exception` catches, among those raised here
Catches(e) ==
    e.type \in {"ValueError", "RuntimeError", "AttributeError", "TypeError",
                "APIConnectionError", "TimeoutError", "APIStatusError"}

\* the static template of prompt_clinical_extraction, with its one placeholder
Placeholder == <<"{","{","T","R","A","N","S","C","R","I","P","T","}","}">>
CLINICAL_EXTRACTION_PROMPT == <<"E","x","t","r","a","c","t",".","\n","T","R","A","N","S","C","R","I","P","T",":","\n","{","{","T","R","A","N","S","C","R","I","P","T","}","}","\n">>

generate_prompt(t) == Replace(CLINICAL_EXTRACTION_PROMPT, Placeholder, t)

\* mock mode honoured only when no provider is configured
UseMock_unless_configured(o) ==
    o.mockResponse = "True" /\ ~openai_client /\ ~claude_client

\* options.get("mockResponse") is true
UseMock(o) == o.mockResponse = "True"

\* options.get("method", "default")
ExtractionMethod(o) == IF o.method = "absent" THEN "default" ELSE o.method

\* the two branches of the selection swapped
FirstProvider_claude_first ==
    IF claude_client THEN "claude"
    ELSE IF openai_client THEN "openai"
    ELSE "none"

\* the provider extract_clinical_data calls first
FirstProvider ==
    IF openai_client THEN "openai"
    ELSE IF claude_client THEN "claude"
    ELSE "none"

\* whether the failure of provider A is followed by a call of provider B
FallsBack == claude_client

ProcessedAt == "isoformat"

-----------------------------------------------------------------------------
(* SpecClean: clean_transcript applied once, then to its own result. *)

CleanAlphabet == {"a", " ", "\n", "\t", "\f"}

IdleClean == cpc = "off" /\ cx = <<>> /\ cy = <<>> /\ cz = <<>>

IdleParse ==
    /\ ppc = "off"
    /\ raw_output = <<>>
    /\ structured = [categories |-> <<>>]
    /\ validation = [isValid |-> TRUE]

IdlePipeline ==
    /\ openai_client = FALSE
    /\ claude_client = FALSE
    /\ entry = "direct"
    /\ transcript = None
    /\ options = EmptyDict
    /\ pc = "off"
    /\ cleaned = <<>>
    /\ extracted_text = <<>>
    /\ pending = NoException
    /\ calls = <<>>
    /\ raised = NoException
    /\ result = NoResult
    /\ response = NoResponse

InitClean ==
    /\ cpc = "input"
    /\ cx \in SeqsUpTo(CleanAlphabet, MaxLen)
    /\ cy = <<>>
    /\ cz = <<>>
    /\ IdleParse
    /\ IdlePipeline

CleanOnce ==
    /\ cpc = "input"
    /\ cy' = clean_transcript(cx)
    /\ cpc' = "once"
    /\ UNCHANGED <<cx, cz, parseVars, pipelineVars>>

CleanTwice ==
    /\ cpc = "once"
    /\ cz' = clean_transcript(cy)
    /\ cpc' = "twice"
    /\ UNCHANGED <<cx, cy, parseVars, pipelineVars>>

NextClean == CleanOnce \/ CleanTwice

SpecClean == InitClean /\ [][NextClean]_vars

\* the characters clean_transcript turns into a space, and the space
Blank == {" ", "\n", "\r", "\t"}

\* s has three blanks in a row
HasLongBlankRun(s) ==
    \E i \in 1..(Len(s) - 2) : s[i] \in Blank /\ s[i + 1] \in Blank /\ s[i + 2] \in Blank

EndsInWhitespace(s) == s # <<>> /\ s[Len(s)] \in Whitespace

-----------------------------------------------------------------------------
(* SpecParse: structure_output, then validate_extraction, on every provider *)
(* reply made of at most MaxLines of the lines below, with and without the  *)
(* markers around them.                                                     *)

ReplyLines == {
    <<"1","."," ","C","h","i","e","f"," ","C","o","m","p","l","a","i","n","t",":">>,
    <<"2","."," ","h","i","s","t","o","r","y"," ","o","f"," ","p","r","e","s","e","n","t"," ","i","l","l","n","e","s","s">>,
    <<"1","0",".","B",":",":">>,
    <<"-"," ","x">>,
    <<" "," ","-","y"," ">>,
    <<"n","o","t","e">>,
    <<>> }

\* "\n".join(lines)
RECURSIVE Join(_)
Join(lines) ==
    IF lines = <<>> THEN <<>>
    ELSE IF Len(lines) = 1 THEN lines[1]
    ELSE lines[1] \o <<"\n">> \o Join(Tail(lines))

Chatter == <<"o","k">>

\* how a provider frames its reply
Framings == {"markers", "bare", "unclosed", "chatter"}

Reply(framing, lines) ==
    LET body == Join(lines)
    IN  CASE framing = "markers"  -> OpenMarker \o <<"\n">> \o body \o <<"\n">> \o CloseMarker
          [] framing = "bare"     -> body
          [] framing = "unclosed" -> OpenMarker \o <<"\n">> \o body
          [] framing = "chatter"  -> Chatter \o <<"\n">> \o OpenMarker \o body
                                     \o CloseMarker \o <<"\n">> \o Chatter

Replies == {Reply(f, ls) : f \in Framings, ls \in SeqsUpTo(ReplyLines, MaxLines)}

InitParse ==
    /\ ppc = "input"
    /\ raw_output \in Replies
    /\ structured = [categories |-> <<>>]
    /\ validation = [isValid |-> TRUE]
    /\ IdleClean
    /\ IdlePipeline

Structure ==
    /\ ppc = "input"
    /\ structured' = structure_output(raw_output)
    /\ ppc' = "structured"
    /\ UNCHANGED <<raw_output, validation, cleanVars, pipelineVars>>

Validate ==
    /\ ppc = "structured"
    /\ validation' = validate_extraction(structured)
    /\ ppc' = "validated"
    /\ UNCHANGED <<raw_output, structured, cleanVars, pipelineVars>>

NextParse == Structure \/ Validate

SpecParse == InitParse /\ [][NextParse]_vars


\* the k-th smallest element of a set of numbers
Nth(S, k) == CHOOSE a \in S : Cardinality({b \in S : b < a}) = k - 1

\* the elements of a set of numbers, ascending
Ascending(S) == [k \in 1..Cardinality(S) |-> Nth(S, k)]

\* What order preservation asks of parse_section, stated on the positions of the
\* lines: the k-th record is the k-th header line, and its details are the dash
\* lines between that header and the next one, in the order of their positions.
RecordsInLineOrder(lines) ==
    LET headers == {i \in 1..Len(lines) : IsHeader(lines[i])}
        nextHeader(i) == IF \E j \in headers : j > i
                         THEN Nth({j \in headers : j > i}, 1)
                         ELSE Len(lines) + 1
        dashes(i) == Ascending({j \in (i + 1)..(nextHeader(i) - 1) : IsDash(lines[j])})
        details(i) == [k \in 1..Len(dashes(i)) |-> DetailText(lines[dashes(i)[k]])]
    IN  [k \in 1..Cardinality(headers) |->
            [category |-> CategoryName(lines[Nth(headers, k)]),
             details  |-> details(Nth(headers, k))]]

\* the names of a list of records
Names(records) == [i \in 1..Len(records) |-> records[i].category]

\* the required categories no produced category name contains
MissingRequired(records) ==
    {r \in 1..Len(Required) :
        ~ \E i \in 1..Len(records) : Contains(Lower(records[i].category), Lower(Required[r]))}

\* C6: for every structured result, isValid is false exactly when
\* totalDataPoints is 0; a missing required category adds one warning and
\* neither an error nor a change of isValid.
C6_InvalidIffNoDataPoints ==
    ppc = "validated" =>
        /\ (validation.isValid = FALSE) <=> (structured.summary.totalDataPoints = 0)
        /\ (validation.errors # <<>>) <=> (structured.summary.totalDataPoints = 0)
        /\ Len(validation.warnings) = Cardinality(MissingRequired(structured.categories))

\* records were extracted, a required category is missing, and the result is valid
C6_Witness ==
    /\ ppc = "validated"
    /\ structured.summary.totalDataPoints = 2
    /\ Len(validation.warnings) = 1
    /\ validation.isValid = TRUE
    /\ validation.errors = <<>>

\* C7 as stated: categoriesFound is the names of the records whose details are
\* not empty, in order.
C7_CategoriesFoundHaveDetails ==
    ppc # "input" =>
        structured.summary.categoriesFound =
            Names(SelectSeq(structured.categories, LAMBDA r : r.details # <<>>))

\* C10: the records are in the order of their header lines and each record's
\* details in the order of the dash lines under its header; nothing is sorted,
\* merged or dropped, a header without bullets gives a record with no details,
\* and dash lines before the first header give nothing.
C10_OrderPreserving ==
    (ppc # "input" /\ SearchSection(raw_output).matched) =>
        structured.categories =
            RecordsInLineOrder(StrippedLines(SearchSection(raw_output).group))

\* a section with the same header twice, the first without bullets, the second
\* with the same bullet text twice
C10_Witness ==
    /\ ppc # "input"
    /\ SearchSection(raw_output).matched
    /\ Len(structured.categories) = 2
    /\ structured.categories[1].category = structured.categories[2].category
    /\ structured.categories[1].details = <<>>
    /\ Len(structured.categories[2].details) = 2
    /\ structured.categories[2].details[1] = structured.categories[2].details[2]


-----------------------------------------------------------------------------
(* Spec: one request, through TranscriptController.process_transcript or    *)
(* straight into ExtractionService.process_transcript.                      *)

Transcripts == {
    None,
    PyStr(<<>>),
    PyStr(<<" ">>),
    PyStr(<<"h", "i">>),
    PyStr(<<" ", "a", " ", " ", "b", "\n">>),
    PyStr(<<"a", "b", "c", "d", "e", "f">>),
    PyInt(<<"0">>),
    PyInt(<<"7">>) }

Options ==
    {[type |-> "NoneType", mockResponse |-> "absent", method |-> "absent", items |-> 0]}
    \cup {[type |-> "dict", mockResponse |-> m, method |-> k, items |-> 0] :
             m \in {"absent", "False", "True"}, k \in {"absent", "llm"}}
    \cup {[type |-> "list", mockResponse |-> "absent", method |-> "absent", items |-> n] :
             n \in {0, 1}}

\* what the providers may answer
ReplyA == Reply("markers", <<
    <<"1","."," ","C","h","i","e","f"," ","C","o","m","p","l","a","i","n","t",":">>,
    <<"-"," ","x">>,
    <<"2","."," ","h","i","s","t","o","r","y"," ","o","f"," ","p","r","e","s","e","n","t"," ","i","l","l","n","e","s","s">> >>)
ReplyB == Reply("chatter", << <<"1","0",".","B",":",":">> >>)
BareReply == Join(<<
    <<"1","."," ","C","h","i","e","f"," ","C","o","m","p","l","a","i","n","t",":">>,
    <<"-"," ","x">> >>)

\* response.choices[0].message.content: a str, or None
OpenAIContents == {PyStr(ReplyA), PyStr(BareReply), None}
\* response.content[0].text
ClaudeTexts == {PyStr(ReplyB), PyStr(BareReply)}

\* what the provider calls may raise
OpenAIErrors == {Exc("APIConnectionError", <<"Connection error.">>, "openai"),
                 Exc("TimeoutError", <<>>, "openai")}
ClaudeErrors == {Exc("APIStatusError", <<"Overloaded">>, "claude")}

Init ==
    /\ openai_client \in BOOLEAN
    /\ claude_client \in BOOLEAN
    /\ entry \in {"http", "direct"}
    /\ transcript \in Transcripts
    /\ options \in Options
    /\ pc = IF entry = "http" THEN "controller" ELSE "service"
    /\ cleaned = <<>>
    /\ extracted_text = <<>>
    /\ pending = NoException
    /\ calls = <<>>
    /\ raised = NoException
    /\ result = NoResult
    /\ response = NoResponse
    /\ IdleClean
    /\ IdleParse

FailureEnvelope(e) ==
    [success |-> FALSE, error |-> StrOf(e), metadata |-> [processedAt |-> ProcessedAt]]

SuccessEnvelope(text, cl, o) ==
    LET st == structure_output(text)
    IN  [success    |-> TRUE,
         data       |-> st,
         validation |-> validate_extraction(st),
         metadata   |-> [processedAt      |-> ProcessedAt,
                         transcriptLength |-> Len(cl),
                         extractionMethod |-> ExtractionMethod(o)]]

\* an exception leaves the try block of process_transcript: the handler
\* returns the failure envelope
Raise(e) ==
    /\ raised' = e
    /\ IF Catches(e)
       THEN result' = FailureEnvelope(e) /\ pc' = "returned"
       ELSE result' = result /\ pc' = "escaped"

\* extract_clinical_data returned `text`: structure, validate, return
Finish(text, cl, o) ==
    /\ extracted_text' = <<text>>
    /\ IF text.type # "str"
       THEN Raise(Exc("TypeError",
                      <<"expected string or bytes-like object, got 'NoneType'">>,
                      "structure_output"))
       ELSE /\ result' = SuccessEnvelope(text.value, cl, o)
            /\ pc' = "returned"
            /\ raised' = raised

\* TranscriptController.process_transcript, up to the call of the service
ControllerProcess ==
    /\ pc = "controller"
    /\ IF ~Truthy(transcript)
       THEN /\ response' = [status |-> 400,
                            content |-> [success |-> FALSE,
                                         error |-> MissingTranscriptMessage]]
            /\ pc' = "done"
       ELSE /\ response' = response
            /\ pc' = "service"
    /\ UNCHANGED <<openai_client, claude_client, entry, transcript, options, cleaned,
                   extracted_text, pending, calls, raised, result, cleanVars, parseVars>>

\* ExtractionService.process_transcript, up to the first provider call or, when
\* there is none, to its return
ProcessTranscript ==
    /\ pc = "service"
    /\ LET o == IF OptionsTruthy(options) THEN options ELSE EmptyDict
       IN  /\ options' = o
           /\ IF ~Truthy(transcript) \/ transcript.type # "str"
              THEN /\ Raise(Exc("ValueError", <<InvalidTranscriptMessage>>, "process_transcript"))
                   /\ UNCHANGED <<cleaned, extracted_text, calls>>
              ELSE LET cl == clean_transcript(transcript.value)
                       full_prompt == generate_prompt(cl)
                   IN  /\ cleaned' = <<cl>>
                       /\ IF o.type # "dict"
                          THEN /\ Raise(Exc("AttributeError",
                                            <<"'list' object has no attribute 'get'">>,
                                            "extract_clinical_data"))
                               /\ UNCHANGED <<extracted_text, calls>>
                          ELSE IF UseMock(o)
                          THEN /\ Finish(PyStr(generate_mock_response), cl, o)
                               /\ UNCHANGED calls
                          ELSE IF FirstProvider = "openai"
                          THEN /\ calls' = Append(calls, [provider |-> "openai", prompt |-> full_prompt])
                               /\ pc' = "await_openai"
                               /\ UNCHANGED <<extracted_text, raised, result>>
                          ELSE IF FirstProvider = "claude"
                          THEN /\ calls' = Append(calls, [provider |-> "claude", prompt |-> full_prompt])
                               /\ pc' = "await_claude"
                               /\ UNCHANGED <<extracted_text, raised, result>>
                          ELSE /\ Raise(Exc("RuntimeError", <<NoKeysMessage>>, "extract_clinical_data"))
                               /\ UNCHANGED <<extracted_text, calls>>
    /\ UNCHANGED <<openai_client, claude_client, entry, transcript, pending, response,
                   cleanVars, parseVars>>

\* extract_with_openai returns the reply's content
OpenAIReturns ==
    /\ pc = "await_openai"
    /\ \E content \in OpenAIContents : Finish(content, cleaned[1], options)
    /\ UNCHANGED <<openai_client, claude_client, entry, transcript, options, cleaned,
                   pending, calls, response, cleanVars, parseVars>>

\* extract_with_openai raises: fall back to Claude when it is configured,
\* re-raise otherwise
OpenAIRaises ==
    /\ pc = "await_openai"
    /\ \E e \in OpenAIErrors :
          /\ pending' = e
          /\ IF FallsBack
             THEN /\ calls' = Append(calls, [provider |-> "claude", prompt |-> calls[1].prompt])
                  /\ pc' = "await_claude"
                  /\ UNCHANGED <<raised, result>>
             ELSE /\ Raise(e)
                  /\ UNCHANGED calls
    /\ UNCHANGED <<openai_client, claude_client, entry, transcript, options, cleaned,
                   extracted_text, response, cleanVars, parseVars>>

\* extract_with_claude returns the reply's text
ClaudeReturns ==
    /\ pc = "await_claude"
    /\ \E text \in ClaudeTexts : Finish(text, cleaned[1], options)
    /\ UNCHANGED <<openai_client, claude_client, entry, transcript, options, cleaned,
                   pending, calls, response, cleanVars, parseVars>>

\* extract_with_claude raises: nothing in extract_clinical_data catches it
ClaudeRaises ==
    /\ pc = "await_claude"
    /\ \E e \in ClaudeErrors : Raise(e)
    /\ UNCHANGED <<openai_client, claude_client, entry, transcript, options, cleaned,
                   extracted_text, pending, calls, response, cleanVars, parseVars>>

\* TranscriptController.process_transcript wraps what the service returned
ControllerRespond ==
    /\ pc = "returned"
    /\ entry = "http"
    /\ response' = [status |-> 200, content |-> result]
    /\ pc' = "done"
    /\ UNCHANGED <<openai_client, claude_client, entry, transcript, options, cleaned,
                   extracted_text, pending, calls, raised, result, cleanVars, parseVars>>

Next ==
    \/ ControllerProcess
    \/ ProcessTranscript
    \/ OpenAIReturns
    \/ OpenAIRaises
    \/ ClaudeReturns
    \/ ClaudeRaises
    \/ ControllerRespond

Spec == Init /\ [][Next]_vars


\* process_transcript has returned
Returned == pc \in {"returned", "done"} /\ result # NoResult

\* the transcript is a non-empty string
ValidTranscript == transcript.type = "str" /\ transcript.value # <<>>

\* the number of calls made to a provider
CallsTo(p) == Cardinality({i \in 1..Len(calls) : calls[i].provider = p})

\* C1 as stated: when provider A failed and the gateway failed too (B not
\* configured, or B called and failed as well), the exception that propagates,
\* and so the envelope's error, is A's.
C1_OriginalFailurePropagates ==
    (Returned /\ pending # NoException /\ raised # NoException) =>
        /\ raised = pending
        /\ result.error = StrOf(pending)

\* C2: no exception escapes process_transcript; an exception raised in any
\* stage gives the envelope {success: false, error: str(e), metadata:
\* {processedAt}} and nothing else; without an exception the envelope says
\* success; and a request that reaches the gateway with no provider configured
\* and no mock mode gets the no-provider message.
C2_FailureEnvelope ==
    /\ pc # "escaped"
    /\ (pc \in {"returned", "done"} /\ raised # NoException) =>
           /\ DOMAIN result = {"success", "error", "metadata"}
           /\ result.success = FALSE
           /\ result.error = (IF raised.args = <<>> THEN "" ELSE raised.args[1])
           /\ DOMAIN result.metadata = {"processedAt"}
    /\ (Returned /\ raised = NoException) => result.success = TRUE
    /\ (Returned /\ ValidTranscript /\ options.type = "dict" /\ options.mockResponse # "True"
            /\ ~openai_client /\ ~claude_client) =>
           /\ result.success = FALSE
           /\ result.error = NoKeysMessage

\* a valid transcript, no mock mode, no provider: the failure envelope
C2_Witness ==
    /\ pc = "done"
    /\ ValidTranscript
    /\ options.mockResponse = "False"
    /\ ~openai_client /\ ~claude_client
    /\ raised.type = "RuntimeError"
    /\ response.content = [success |-> FALSE, error |-> NoKeysMessage,
                           metadata |-> [processedAt |-> ProcessedAt]]

\* C3 as stated: a request to the process endpoint whose transcript is missing,
\* empty or not a string is answered with a 400-class status, and the service
\* normalises nothing, calls no provider and computes no transcriptLength.
C3_InvalidTranscriptRejected ==
    (entry = "http" /\ pc = "done" /\ ~ValidTranscript) =>
        /\ response.status \in 400..499
        /\ cleaned = <<>>
        /\ calls = <<>>
        /\ (result # NoResult => "transcriptLength" \notin DOMAIN result.metadata)

\* C4: with mockResponse true and a non-empty string transcript, whatever the
\* providers configured, no provider is ever called and the envelope has
\* success, four data points, isValid and no warnings.
C4_MockMode ==
    (ValidTranscript /\ options.type = "dict" /\ options.mockResponse = "True") =>
        /\ calls = <<>>
        /\ pc \notin {"await_openai", "await_claude", "escaped"}
        /\ Returned =>
              /\ result.success = TRUE
              /\ result.data.summary.totalDataPoints = 4
              /\ result.validation.isValid = TRUE
              /\ result.validation.warnings = <<>>

\* mock mode with both providers configured, answered over HTTP
C4_Witness ==
    /\ pc = "done"
    /\ openai_client /\ claude_client
    /\ ValidTranscript
    /\ options.mockResponse = "True"
    /\ calls = <<>>
    /\ response.status = 200
    /\ response.content.success = TRUE
    /\ response.content.data.summary.totalDataPoints = 4

\* C5: each provider is called at most once; provider A, when configured, is
\* called first; provider B is called only when A is not configured or A's call
\* has failed; and when A failed and B answered, the envelope says success, is
\* built from B's text, and has only the fields success, data, validation and
\* metadata {processedAt, transcriptLength, extractionMethod}, none of which
\* names a provider.
C5_SingleFallbackHop ==
    /\ CallsTo("openai") <= 1
    /\ CallsTo("claude") <= 1
    /\ (openai_client /\ calls # <<>>) => calls[1].provider = "openai"
    /\ \A i \in 1..Len(calls) :
          calls[i].provider = "claude" =>
              \/ ~openai_client
              \/ (pending # NoException /\ i = 2 /\ calls[1].provider = "openai")
    /\ (Returned /\ pending # NoException /\ extracted_text # <<>>) =>
          /\ extracted_text[1] \in ClaudeTexts
          /\ result.success = TRUE
          /\ result.data = structure_output(extracted_text[1].value)
          /\ DOMAIN result = {"success", "data", "validation", "metadata"}
          /\ DOMAIN result.metadata = {"processedAt", "transcriptLength", "extractionMethod"}
          /\ result.metadata.extractionMethod \in {"default", "llm"}

\* provider A failed, provider B answered with its one-record reply
C5_Witness ==
    /\ pc = "done"
    /\ pending.origin = "openai"
    /\ Len(calls) = 2
    /\ extracted_text = <<PyStr(ReplyB)>>
    /\ response.content.success = TRUE
    /\ response.content.data.summary.totalDataPoints = 1

\* C9 as stated: in every envelope the caller can receive, success = false
\* comes with an error that is a non-empty string.
C9_FailureHasError ==
    /\ (Returned /\ result.success = FALSE) =>
           ("error" \in DOMAIN result /\ result.error # "")
    /\ (pc = "done" /\ response.content.success = FALSE) =>
           ("error" \in DOMAIN response.content /\ response.content.error # "")

=============================================================================
